---- MODULE Spec2Model ----
(***************************************************************************)
(* A model of sway-session.py: saving a Sway session (the scene tree is    *)
(* flattened into window records, the workspace list is projected) and     *)
(* restoring it (workspace placement, then window relaunch).               *)
(*                                                                         *)
(* JSON values.  A value that may be null (Python None, or a key that is   *)
(* missing and read with .get) is an option: None is the empty tuple and   *)
(* Some(x) the one-element tuple <<x>>.  Strings are TLA+ strings, so that *)
(* the command texts are built by concatenation as the f-strings build     *)
(* them.                                                                   *)
(***************************************************************************)
EXTENDS Naturals, Sequences, FiniteSets, TLC

VARIABLES
    tree,               \* compositor: reply to `swaymsg -t get_tree`
    workspaces,         \* compositor: reply to `swaymsg -t get_workspaces`
    outputs,            \* compositor: reply to `swaymsg -t get_outputs`
    procfs,             \* /proc/<pid>/cmdline: what reading it gives, per pid
    file,               \* the state file: None (absent) or Some(payload)
    pc,                 \* position of the running invocation
    windows,            \* local `windows` (collect_windows' result / data["windows"])
    workspace_targets,  \* restore_state: the dict, as its items in insertion order
    available_outputs,  \* restore_state: the set of present output names
    idx,                \* restore_state: index of the next loop iteration
    log,                \* every swaymsg command issued so far, with its outcome
    queries,            \* every swaymsg -t query issued so far
    stdout              \* lines printed

vars == << tree, workspaces, outputs, procfs, file, pc, windows,
           workspace_targets, available_outputs, idx, log, queries, stdout >>

----------------------------------------------------------------------------
(* Options and Python truthiness *)

None == << >>

Some(x) == << x >>

\* `if s` for an optional string: neither None nor "".
TruthyStr(o) == o # None /\ o[1] # ""

\* `if n` for an optional integer: neither None nor 0.
TruthyInt(o) == o # None /\ o[1] # 0

\* `x or d`
OrElse(o, d) == IF o = None THEN d ELSE o[1]

\* An optional string formatted into an f-string: None prints as "None".
fmt(o) == IF o = None THEN "None" ELSE o[1]

----------------------------------------------------------------------------
(* Bounds *)

\* Scene trees have at most MaxNodes nodes.
MaxNodes == 3

\* A /proc/<pid>/cmdline has at most MaxContent bytes.
MaxContent == 3

\* A snapshot given to restore has at most MaxRecords records
\* (workspace records and window records together).
MaxRecords == 3

\* The compositor reports at most MaxWorkspaces workspaces to save.
MaxWorkspaces == 2

----------------------------------------------------------------------------
(* ProcessInspector: read_cmdline *)

\* The zero byte, and a byte that is not valid UTF-8.
NUL == "\\0"

BadByte == "\\xff"

Bytes == { NUL, "a", BadByte }

\* What open()/read() of /proc/<pid>/cmdline can do: raise FileNotFoundError,
\* raise another OSError (PermissionError, EIO, ...), or give the bytes.
ReadOutcomes(max) ==
    { [err |-> e, content |-> << >>] : e \in { "FileNotFoundError", "PermissionError", "OSError" } }
    \cup { [err |-> "", content |-> c] :
             c \in UNION { [1..n -> Bytes] : n \in 0..max } }

\* bytes.decode("utf-8", errors="replace"), byte by byte.
decode(b) == IF b = BadByte THEN "?" ELSE b

\* content.split(b"\0"): the parts between zero bytes, each decoded.
RECURSIVE split(_, _, _)
split(content, k, parts) ==
    IF k > Len(content) THEN parts
    ELSE IF content[k] = NUL
         THEN split(content, k + 1, Append(parts, ""))
         ELSE split(content, k + 1,
                    [parts EXCEPT ![Len(parts)] = @ \o decode(content[k])])

\* [p for p in content if p]
nonempty(parts) == SelectSeq(parts, LAMBDA p : p # "")

\* " ".join(parts)
RECURSIVE join(_)
join(parts) ==
    IF Len(parts) = 0 THEN ""
    ELSE IF Len(parts) = 1 THEN parts[1]
    ELSE parts[1] \o " " \o join(Tail(parts))

\* Mutant: only `except FileNotFoundError` is there.
CaughtOnlyMissing == { "FileNotFoundError" }

\* The except clauses of read_cmdline: the exceptions it turns into None.
Caught == { "FileNotFoundError", "PermissionError", "OSError" }

\* read_cmdline(pid): [raised, value]; raised says an exception left the function.
read_cmdline(pid) ==
    LET r == procfs[pid]
        parts == nonempty(split(r.content, 1, << "" >>))
    IN  IF r.err # ""
        THEN IF r.err \in Caught
             THEN [raised |-> FALSE, value |-> None]
             ELSE [raised |-> TRUE, value |-> None]
        ELSE [raised |-> FALSE,
              value |-> IF Len(parts) > 0 THEN Some(join(parts)) ELSE None]

----------------------------------------------------------------------------
(* TreeWalker: collect_windows *)

\* Mutant: the test of the node's type is dropped.
is_window_any_type(node) == TruthyInt(node.pid)

\* The test `node.get("pid") and node_type == "con"` of _walk.
is_window(node) == TruthyInt(node.pid) /\ node.type = "con"

\* The record _walk appends for a window node.
window_record(node, current_output, current_workspace, cmd) ==
    [ workspace |-> current_workspace,
      output    |-> current_output,
      pid       |-> node.pid,
      app_id    |-> node.app_id,
      wm_class  |-> IF node.window_properties = None THEN None
                    ELSE node.window_properties[1].class,
      title     |-> node.name,
      cmd       |-> cmd,
      marks     |-> OrElse(node.marks, << >>) ]

\* Mutant: an output node inside another output keeps the outer name.
enter_output_outermost(node, output) ==
    IF node.type = "output" /\ output = None THEN node.name ELSE output

\* current_output and current_workspace of _walk: the context the node's own
\* record and its children get.
enter_output(node, output) ==
    IF node.type = "output" THEN node.name ELSE output

enter_workspace(node, workspace) ==
    IF node.type = "output" THEN workspace
    ELSE IF node.type = "workspace" THEN node.name ELSE workspace

\* _walk(node, output, workspace) appended to the windows collected so far:
\* [raised, windows].  The children are visited in order, each with the
\* context of this node.
RECURSIVE _walk(_, _, _, _), walk_children(_, _, _, _, _)
_walk(node, output, workspace, acc) ==
    LET current_output == enter_output(node, output)
        current_workspace == enter_workspace(node, workspace)
        rc == read_cmdline(node.pid[1])
    IN  IF is_window(node) /\ rc.raised
        THEN [raised |-> TRUE, windows |-> acc]
        ELSE walk_children(
                 node.nodes, 1, current_output, current_workspace,
                 IF is_window(node)
                 THEN Append(acc, window_record(node, current_output,
                                                current_workspace, rc.value))
                 ELSE acc)

walk_children(children, k, output, workspace, acc) ==
    IF k > Len(children) THEN [raised |-> FALSE, windows |-> acc]
    ELSE LET r == _walk(children[k], output, workspace, acc)
         IN  IF r.raised THEN r
             ELSE walk_children(children, k + 1, output, workspace, r.windows)

collect_windows(t) == _walk(t, None, None, << >>)

----------------------------------------------------------------------------
(* Scene trees *)

Pids == { 100, 200 }

\* A node without its children.  The kinds of node a sway tree holds: outputs and
\* workspaces (named or not), tiling containers (with no pid, pid 0 or a pid), a
\* floating container with a pid, and the root.
node(type, name, pid) ==
    [ type |-> type, name |-> name, pid |-> pid,
      app_id |-> IF pid = None THEN None ELSE Some("foot"),
      window_properties |-> IF pid = None THEN None ELSE Some([class |-> Some("term")]),
      marks |-> None ]

NodeKinds ==
    { node("output", n, None) : n \in { None, Some("DP-1"), Some("HDMI-1") } }
    \cup { node("workspace", n, None) : n \in { None, Some("1"), Some("2") } }
    \cup { node("con", Some("term"), p) : p \in { None, Some(0), Some(100) } }
    \cup { node("floating_con", Some("term"), Some(100)), node("root", Some("root"), None) }

with_nodes(k, children) ==
    [ type |-> k.type, name |-> k.name, pid |-> k.pid, app_id |-> k.app_id,
      window_properties |-> k.window_properties, marks |-> k.marks,
      nodes |-> children ]

\* A tree of n nodes is given by the kind of each node and, for each node but
\* the first, its parent, a node before it; the children of a node are in the
\* order of their numbers.
ParentVectors(n) == { p \in [2..n -> 1..n] : \A i \in 2..n : p[i] < i }

RECURSIVE build_tree(_, _, _), build_children(_, _, _, _)
build_tree(parents, kinds, i) ==
    with_nodes(kinds[i], build_children(parents, kinds, i, i + 1))

build_children(parents, kinds, i, j) ==
    IF j > Len(kinds) THEN << >>
    ELSE IF parents[j] = i
    THEN << build_tree(parents, kinds, j) >> \o build_children(parents, kinds, i, j + 1)
    ELSE build_children(parents, kinds, i, j + 1)

\* The tree of the documented scenario: two outputs, a workspace on each, a
\* window on each workspace.
ScenarioTree ==
    with_nodes(node("root", Some("root"), None), <<
        with_nodes(node("output", Some("DP-1"), None), <<
            with_nodes(node("workspace", Some("1"), None), <<
                with_nodes(node("con", Some("term"), Some(100)), << >>) >>) >>),
        with_nodes(node("output", Some("HDMI-1"), None), <<
            with_nodes(node("workspace", Some("2"), None), <<
                with_nodes(node("con", Some("web"), Some(200)), << >>) >>) >>) >>)

\* A readable command line: "a\0a\0".
Readable == [err |-> "", content |-> << "a", NUL, "a", NUL >>]

----------------------------------------------------------------------------
(* collect_windows applied to a tree *)

Quiet ==
    /\ workspaces = << >>
    /\ outputs = << >>
    /\ file = None
    /\ pc = "idle"
    /\ windows = << >>
    /\ workspace_targets = << >>
    /\ available_outputs = {}
    /\ idx = 0
    /\ log = << >>
    /\ queries = << >>
    /\ stdout = << >>

Collect ==
    /\ pc = "idle"
    /\ LET r == collect_windows(tree)
       IN  /\ windows' = r.windows
           /\ pc' = IF r.raised THEN "raised" ELSE "collected"
    /\ UNCHANGED << tree, workspaces, outputs, procfs, file, workspace_targets,
                    available_outputs, idx, log, queries, stdout >>

\* Any scene tree, every process readable.
InitWalk ==
    /\ \E n \in 1..MaxNodes :
         \E parents \in ParentVectors(n), kinds \in [1..n -> NodeKinds] :
             tree = build_tree(parents, kinds, 1)
    /\ procfs = [p \in Pids |-> Readable]
    /\ Quiet

SpecWalk == InitWalk /\ [][Collect]_vars

\* The scenario's tree, every outcome of reading each process.
InitInspect ==
    /\ tree = ScenarioTree
    /\ procfs \in [Pids -> ReadOutcomes(MaxContent)]
    /\ Quiet

SpecInspect == InitInspect /\ [][Collect]_vars

----------------------------------------------------------------------------
(* Compositor commands: swaymsg_cmd *)

\* The command texts restore_state formats.
switch_cmd(ws_name) == "workspace \"" \o ws_name \o "\""

move_cmd(output) == "move workspace to output \"" \o output \o "\""

exec_cmd(cmd) == "exec -- " \o cmd

\* swaymsg_cmd(command): the command is sent, with the outcome swaymsg reports.
swaymsg_cmd(sent, command, ok) == Append(sent, [text |-> command, ok |-> ok])

\* Mutant: subprocess.call, which reports the status and raises nothing.
call_never_raises(ok) == FALSE

\* subprocess.check_call raises CalledProcessError on a non-zero exit status.
check_call_raises(ok) == ~ok

----------------------------------------------------------------------------
(* SnapshotBuilder: save_state *)

\* Mutant: the comprehension carries `if ws.get("name")`.
save_workspaces_named(reply) ==
    SelectSeq([ k \in 1..Len(reply) |->
                  [ name |-> reply[k].name, output |-> reply[k].output,
                    focused |-> reply[k].focused ] ],
              LAMBDA ws : TruthyStr(ws.name))

\* The workspaces list of the payload: one record per reported workspace.
save_workspaces(reply) ==
    [ k \in 1..Len(reply) |->
        [ name |-> reply[k].name, output |-> reply[k].output,
          focused |-> reply[k].focused ] ]

save_payload(reply, wins) ==
    [ saved_at |-> "time.time()", workspaces |-> save_workspaces(reply),
      windows |-> wins ]

\* save_state(path).  Each query may fail (check_output raises), reading a
\* command line may not (read_cmdline), creating the directory or the file may
\* fail; an exception ends the invocation with nothing written.
save_state ==
    /\ pc = "idle"
    /\ \E ok_tree, ok_ws, ok_write \in BOOLEAN :
         LET r == collect_windows(tree)
             done == ok_tree /\ ok_ws /\ ~r.raised /\ ok_write
         IN  /\ queries' = IF ok_tree THEN queries \o << "get_tree", "get_workspaces" >>
                           ELSE Append(queries, "get_tree")
             /\ windows' = IF ok_tree /\ ok_ws THEN r.windows ELSE windows
             /\ file' = IF done THEN Some(save_payload(workspaces, r.windows)) ELSE file
             /\ stdout' = IF done THEN Append(stdout, "Saved session") ELSE stdout
             /\ pc' = IF done THEN "saved" ELSE "failed"
    /\ UNCHANGED << tree, workspaces, outputs, procfs, workspace_targets,
                    available_outputs, idx, log >>

----------------------------------------------------------------------------
(* SessionRestorer: restore_state *)

\* Mutant: the existence test is gone.
exists_unchecked(f) == TRUE

\* path.exists()
exists(f) == f # None

\* {ws["name"]: ws.get("output") for ws in ... if ws.get("name")}: a dict keeps
\* the position of a key's first insertion and the value of its last.
RECURSIVE build_targets(_, _, _)
build_targets(recs, k, acc) ==
    IF k > Len(recs) THEN acc
    ELSE IF ~TruthyStr(recs[k].name) THEN build_targets(recs, k + 1, acc)
    ELSE LET ws_name == recs[k].name[1]
             at == { j \in 1..Len(acc) : acc[j].name = ws_name }
         IN  IF at = {}
             THEN build_targets(recs, k + 1,
                      Append(acc, [name |-> ws_name, output |-> recs[k].output]))
             ELSE build_targets(recs, k + 1,
                      [ j \in 1..Len(acc) |->
                          IF j \in at
                          THEN [name |-> ws_name, output |-> recs[k].output]
                          ELSE acc[j] ])

\* {out.get("name") for out in swaymsg_json("get_outputs")}
output_names(reply) == { reply[k].name : k \in 1..Len(reply) }

\* Mutant: no workspace is skipped.
output_missing_ignored(output, available) == FALSE

\* `if output and output not in available_outputs`
output_missing(output, available) == TruthyStr(output) /\ output \notin available

\* Mutant: only the command is tested.
not_launchable_cmd_only(cmd, ws) == ~TruthyStr(cmd)

\* `if not cmd or not ws`
not_launchable(cmd, ws) == ~TruthyStr(cmd) \/ ~TruthyStr(ws)

\* The state file does not exist: SystemExit with a message.
restore_missing ==
    /\ pc = "idle"
    /\ ~exists(file)
    /\ pc' = "fatal"
    /\ UNCHANGED << tree, workspaces, outputs, procfs, file, windows,
                    workspace_targets, available_outputs, idx, log, queries, stdout >>

\* The file is read, the targets are built and the outputs are queried.
restore_begin ==
    /\ pc = "idle"
    /\ exists(file)
    /\ IF file = None
       THEN \* path.read_text() raises FileNotFoundError
            /\ pc' = "failed"
            /\ UNCHANGED << workspace_targets, queries, available_outputs, idx >>
       ELSE /\ workspace_targets' = build_targets(file[1].workspaces, 1, << >>)
            /\ queries' = Append(queries, "get_outputs")
            /\ \E ok \in BOOLEAN :
                 IF ok
                 THEN /\ available_outputs' = output_names(outputs)
                      /\ idx' = 1
                      /\ pc' = "phase1"
                 ELSE /\ pc' = "failed"
                      /\ UNCHANGED << available_outputs, idx >>
    /\ UNCHANGED << tree, workspaces, outputs, procfs, file, windows, log, stdout >>

\* Mutant: the second command is issued before the first.
two_commands_swapped(sent, first, second, with_second, ok1, ok2) ==
    IF ~with_second
    THEN [sent |-> Append(sent, [text |-> first, ok |-> ok1]), raised |-> ~ok1]
    ELSE IF ~ok1
    THEN [sent |-> Append(sent, [text |-> second, ok |-> ok1]), raised |-> TRUE]
    ELSE [sent |-> sent \o << [text |-> second, ok |-> ok1], [text |-> first, ok |-> ok2] >>,
          raised |-> ~ok2]

\* The commands one iteration issues, given the two texts in order, whether the
\* second is issued at all, and the outcomes: [sent, raised].
two_commands(sent, first, second, with_second, ok1, ok2) ==
    LET s1 == swaymsg_cmd(sent, first, ok1)
    IN  IF check_call_raises(ok1) THEN [sent |-> s1, raised |-> TRUE]
        ELSE IF ~with_second THEN [sent |-> s1, raised |-> FALSE]
        ELSE [sent |-> swaymsg_cmd(s1, second, ok2), raised |-> check_call_raises(ok2)]

\* One iteration of the loop over workspace_targets.items().
phase1_step ==
    /\ pc = "phase1"
    /\ idx <= Len(workspace_targets)
    /\ LET ws_name == workspace_targets[idx].name
           output == workspace_targets[idx].output
       IN  IF output_missing(output, available_outputs)
           THEN /\ stdout' = Append(stdout, "Skipping workspace " \o ws_name)
                /\ idx' = idx + 1
                /\ UNCHANGED << log, pc >>
           ELSE \E ok1, ok2 \in BOOLEAN :
                  LET r == two_commands(log, switch_cmd(ws_name),
                                        move_cmd(fmt(output)),
                                        TruthyStr(output), ok1, ok2)
                  IN  /\ log' = r.sent
                      /\ pc' = IF r.raised THEN "failed" ELSE pc
                      /\ idx' = IF r.raised THEN idx ELSE idx + 1
                      /\ UNCHANGED stdout
    /\ UNCHANGED << tree, workspaces, outputs, procfs, file, windows,
                    workspace_targets, available_outputs, queries >>

\* The first loop is over: windows = data.get("windows", []).
phase1_end ==
    /\ pc = "phase1"
    /\ idx > Len(workspace_targets)
    /\ windows' = file[1].windows
    /\ idx' = 1
    /\ pc' = "phase2"
    /\ UNCHANGED << tree, workspaces, outputs, procfs, file, workspace_targets,
                    available_outputs, log, queries, stdout >>

\* One iteration of the loop over windows.
phase2_step ==
    /\ pc = "phase2"
    /\ idx <= Len(windows)
    /\ LET cmd == windows[idx].cmd
           ws == windows[idx].workspace
       IN  IF not_launchable(cmd, ws)
           THEN /\ idx' = idx + 1
                /\ UNCHANGED << log, pc >>
           ELSE \E ok1, ok2 \in BOOLEAN :
                  LET r == two_commands(log, switch_cmd(fmt(ws)), exec_cmd(fmt(cmd)),
                                        TRUE, ok1, ok2)
                  IN  /\ log' = r.sent
                      /\ pc' = IF r.raised THEN "failed" ELSE pc
                      /\ idx' = IF r.raised THEN idx ELSE idx + 1
    /\ UNCHANGED << tree, workspaces, outputs, procfs, file, windows,
                    workspace_targets, available_outputs, queries, stdout >>

\* The second loop is over: the confirmation is printed.
restore_end ==
    /\ pc = "phase2"
    /\ idx > Len(windows)
    /\ stdout' = Append(stdout, "Restored session")
    /\ pc' = "done"
    /\ UNCHANGED << tree, workspaces, outputs, procfs, file, windows,
                    workspace_targets, available_outputs, idx, log, queries >>

restore_state ==
    \/ restore_missing
    \/ restore_begin
    \/ phase1_step
    \/ phase1_end
    \/ phase2_step
    \/ restore_end

\* main(): the invocation is over and the script is run again.
main ==
    /\ pc \in { "saved", "done", "fatal", "failed" }
    /\ pc' = "idle"
    /\ windows' = << >>
    /\ workspace_targets' = << >>
    /\ available_outputs' = {}
    /\ idx' = 0
    /\ log' = << >>
    /\ queries' = << >>
    /\ stdout' = << >>
    /\ UNCHANGED << tree, workspaces, outputs, procfs, file >>

----------------------------------------------------------------------------
(* Inputs *)

\* A record of the saved workspaces list (restore reads name and output).
workspace_record(name, output) == [name |-> name, output |-> output, focused |-> Some(FALSE)]

\* The name is null, empty or one of two names; the output is null, empty, the
\* output that is always reported or the one that may not be.
WorkspaceRecords ==
    { workspace_record(n, o) :
        n \in { None, Some(""), Some("1"), Some("2") },
        o \in { None, Some(""), Some("DP-1"), Some("HDMI-2") } }

\* A record of the saved windows list (restore reads cmd and workspace).
saved_window(ws, cmd) ==
    [ workspace |-> ws, output |-> None, pid |-> Some(100), app_id |-> None,
      wm_class |-> None, title |-> None, cmd |-> cmd, marks |-> << >> ]

\* The workspace and the command are each null, empty or given.
WindowRecords ==
    { saved_window(w, c) :
        w \in { None, Some(""), Some("2") },
        c \in { None, Some(""), Some("foot") } }

SeqsOf(S, n) == [1..n -> S]

snapshot(ws, wins) == [saved_at |-> "time.time()", workspaces |-> ws, windows |-> wins]

\* What get_outputs reports: DP-1 alone, or DP-1 and HDMI-2.
OutputReplies ==
    { << [name |-> Some("DP-1")] >>,
      << [name |-> Some("DP-1")], [name |-> Some("HDMI-2")] >> }

\* What get_workspaces reports: at most max workspaces.
WorkspaceReplies(max) ==
    UNION { SeqsOf({ [name |-> n, output |-> o, focused |-> Some(f)] :
                       n \in { None, Some("1"), Some("2") },
                       o \in { Some("DP-1"), Some("HDMI-2") },
                       f \in BOOLEAN }, len)
            : len \in 0..max }

----------------------------------------------------------------------------
(* Specifications *)

\* restore_state on any state file of at most MaxRecords records, or none.
InitRestore ==
    /\ tree = ScenarioTree
    /\ workspaces = << >>
    /\ outputs \in OutputReplies
    /\ procfs = [p \in Pids |-> Readable]
    /\ \/ file = None
       \/ \E nw \in 0..MaxRecords :
            \E nv \in 0..(MaxRecords - nw) :
              \E ws \in SeqsOf(WorkspaceRecords, nw), wins \in SeqsOf(WindowRecords, nv) :
                  file = Some(snapshot(ws, wins))
    /\ pc = "idle"
    /\ windows = << >>
    /\ workspace_targets = << >>
    /\ available_outputs = {}
    /\ idx = 0
    /\ log = << >>
    /\ queries = << >>
    /\ stdout = << >>

SpecRestore == InitRestore /\ [][restore_state]_vars

\* The script: invocations of save and restore, one after the other, starting
\* with no state file.
Init ==
    /\ tree = ScenarioTree
    /\ workspaces \in WorkspaceReplies(MaxWorkspaces)
    /\ outputs \in OutputReplies
    /\ procfs = [p \in Pids |-> Readable]
    /\ file = None
    /\ pc = "idle"
    /\ windows = << >>
    /\ workspace_targets = << >>
    /\ available_outputs = {}
    /\ idx = 0
    /\ log = << >>
    /\ queries = << >>
    /\ stdout = << >>

Next == save_state \/ restore_state \/ main

Spec == Init /\ [][Next]_vars

----------------------------------------------------------------------------
(* Properties of collect_windows (SpecWalk, SpecInspect) *)

\* The nodes of a tree that are leaves with a non-null pid, counted.
RECURSIVE LeafPidCount(_), LeafPidCountOf(_, _)
LeafPidCount(t) ==
    (IF Len(t.nodes) = 0 /\ t.pid # None THEN 1 ELSE 0) + LeafPidCountOf(t.nodes, 1)

LeafPidCountOf(children, k) ==
    IF k > Len(children) THEN 0
    ELSE LeafPidCount(children[k]) + LeafPidCountOf(children, k + 1)

\* A node of kind con whose pid is neither null nor 0.
IsConWithPid(t) == t.type = "con" /\ t.pid # None /\ t.pid # Some(0)

RECURSIVE ConPidCount(_), ConPidCountOf(_, _)
ConPidCount(t) ==
    (IF IsConWithPid(t) THEN 1 ELSE 0) + ConPidCountOf(t.nodes, 1)

ConPidCountOf(children, k) ==
    IF k > Len(children) THEN 0
    ELSE ConPidCount(children[k]) + ConPidCountOf(children, k + 1)

\* C1 as stated: the number of window records equals the number of leaf nodes
\* that carry a non-null process identifier.
C1_LeafCount == pc = "collected" => Len(windows) = LeafPidCount(tree)

\* C1, amended: the number of window records equals the number of nodes of kind
\* con whose process identifier is neither null nor 0, leaves or not, at any
\* depth.
C1_ConCount == pc = "collected" => Len(windows) = ConPidCount(tree)

\* A chain of three nodes that yields two records: one window is not a leaf.
C1_Witness ==
    /\ pc = "collected"
    /\ Len(windows) = 2
    /\ Len(tree.nodes) = 1
    /\ Len(tree.nodes[1].nodes) = 1

\* The paths, root first, to the con nodes with a pid, in pre-order.
RECURSIVE WindowPaths(_, _), WindowPathsOf(_, _, _)
WindowPaths(t, above) ==
    (IF IsConWithPid(t) THEN << Append(above, t) >> ELSE << >>)
    \o WindowPathsOf(t.nodes, 1, Append(above, t))

WindowPathsOf(children, k, above) ==
    IF k > Len(children) THEN << >>
    ELSE WindowPaths(children[k], above) \o WindowPathsOf(children, k + 1, above)

\* The name of the last node of the given kind on a path, None without one.
Nearest(path, kind) ==
    LET at == { k \in 1..Len(path) : path[k].type = kind }
    IN  IF at = {} THEN None
        ELSE path[CHOOSE k \in at : \A j \in at : j <= k].name

\* C2: every window record carries the name of the nearest enclosing output
\* node, and of the nearest enclosing workspace node, on the path from the root
\* to its node, or null without such an ancestor; what a sibling subtree set is
\* not on that path and is never seen.
C2_NearestContext ==
    pc = "collected" =>
        LET paths == WindowPaths(tree, << >>)
        IN  /\ Len(windows) = Len(paths)
            /\ \A i \in 1..Len(paths) :
                 /\ windows[i].output = Nearest(paths[i], "output")
                 /\ windows[i].workspace = Nearest(paths[i], "workspace")

\* An output inside an output of another name, and a window below both.
C2_Witness ==
    /\ pc = "collected"
    /\ tree.type = "output"
    /\ Len(tree.nodes) = 1
    /\ tree.nodes[1].type = "output"
    /\ tree.nodes[1].name # tree.name
    /\ tree.nodes[1].name # None
    /\ Len(windows) = 1
    /\ windows[1].output = tree.nodes[1].name

\* The command line of a cmdline file, read another way: every run of zero
\* bytes between two arguments is one space, the zero bytes at either end are
\* dropped; nothing left is None.
RECURSIVE Squeeze(_, _, _, _)
Squeeze(content, k, text, gap) ==
    IF k > Len(content) THEN text
    ELSE IF content[k] = NUL THEN Squeeze(content, k + 1, text, text # "")
    ELSE Squeeze(content, k + 1,
                 (IF gap THEN text \o " " ELSE text)
                     \o (IF content[k] = BadByte THEN "?" ELSE content[k]),
                 FALSE)

ExpectedCmd(outcome) ==
    IF outcome.err # "" \/ Squeeze(outcome.content, 1, "", FALSE) = "" THEN None
    ELSE Some(Squeeze(outcome.content, 1, "", FALSE))

\* C7: whatever reading a process's argument record does, read_cmdline raises
\* nothing: collect_windows ends, with a record for each of the two windows,
\* whose cmd is null when the read failed or gave no argument and the
\* space-joined non-empty arguments otherwise.
C7_NeverRaises ==
    /\ pc # "raised"
    /\ pc = "collected" =>
         /\ Len(windows) = 2
         /\ windows[1].cmd = ExpectedCmd(procfs[100])
         /\ windows[2].cmd = ExpectedCmd(procfs[200])

\* The first process cannot be read, the second can: both records are there.
C7_Witness ==
    /\ pc = "collected"
    /\ procfs[100].err = "PermissionError"
    /\ procfs[200].err = ""
    /\ Len(windows) = 2
    /\ windows[1].cmd = None
    /\ windows[2].cmd = Some("a ?")

----------------------------------------------------------------------------
(* Properties of restore_state (SpecRestore) *)

\* The texts of the commands issued so far, in order, and as a set.
Texts == [ k \in 1..Len(log) |-> log[k].text ]

IssuedTexts == { log[k].text : k \in 1..Len(log) }

\* The output names the compositor reports.
Reported == { outputs[k].name : k \in 1..Len(outputs) }

\* Phase 1 has ended without a failure and phase 2 has not begun: the log
\* holds the commands of phase 1.
Phase1Over == pc = "phase2" /\ idx = 1

Named(rec) == rec.name # None /\ rec.name # Some("")

\* The output of the last record of the snapshot with the given name.
LastOutput(recs, name) ==
    recs[CHOOSE k \in 1..Len(recs) :
             /\ recs[k].name = name
             /\ \A j \in (k + 1)..Len(recs) : recs[j].name # name].output

Absent(output) == output # None /\ output # Some("") /\ output \notin Reported

\* C3 as stated: after phase 1, the workspace records with no switch command
\* are exactly those whose own output is non-null and not reported.
C3_SkipsExactlyAbsentOutputs ==
    Phase1Over =>
        \A k \in 1..Len(file[1].workspaces) :
            LET rec == file[1].workspaces[k]
            IN  (rec.name # None /\ switch_cmd(fmt(rec.name)) \in IssuedTexts)
                <=> ~(rec.output # None /\ rec.output \notin Reported)

\* C3, amended: phase 1 works on the named records (name neither null nor
\* empty), one target per name, with the output of the last record of that
\* name.  After phase 1 the targets with no switch command are exactly those
\* whose output is non-null, non-empty and not reported; no command is issued
\* for a record without a name.
C3_SkipsExactlyAbsentTargets ==
    Phase1Over =>
        LET recs == file[1].workspaces
            named == { k \in 1..Len(recs) : Named(recs[k]) }
        IN  /\ \A k \in named :
                 switch_cmd(recs[k].name[1]) \in IssuedTexts
                     <=> ~Absent(LastOutput(recs, recs[k].name))
            /\ \A t \in IssuedTexts :
                 \E k \in named :
                     \/ t = switch_cmd(recs[k].name[1])
                     \/ t = move_cmd(fmt(LastOutput(recs, recs[k].name)))

\* The only workspace record names HDMI-2, only DP-1 is reported: no command,
\* a skip notice, and the restore goes on.
C3_Witness ==
    /\ Phase1Over
    /\ Len(file[1].workspaces) = 1
    /\ file[1].workspaces[1].name = Some("2")
    /\ file[1].workspaces[1].output = Some("HDMI-2")
    /\ Reported = { Some("DP-1") }
    /\ log = << >>
    /\ stdout = << "Skipping workspace 2" >>

\* The exec commands a snapshot can give rise to, and how many were issued.
ExecTexts == { exec_cmd(fmt(file[1].windows[k].cmd)) : k \in 1..Len(file[1].windows) }

ExecCount == Cardinality({ j \in 1..Len(log) : log[j].text \in ExecTexts })

\* C4 as stated: after the restore, an exec command was issued for each window
\* record but those with a null command or a null workspace.
C4_SkipsExactlyNullFields ==
    pc = "done" =>
        ExecCount = Cardinality({ k \in 1..Len(file[1].windows) :
                                    /\ file[1].windows[k].cmd # None
                                    /\ file[1].windows[k].workspace # None })

Launchable(win) ==
    /\ win.cmd # None /\ win.cmd # Some("")
    /\ win.workspace # None /\ win.workspace # Some("")

\* C4, amended: the window records with no command are exactly those whose
\* command or workspace is null or empty; each of the others gets the switch to
\* its workspace and then the exec of its command, whether or not phase 1
\* skipped that workspace.
C4_SkipsExactlyEmptyFields ==
    pc = "done" =>
        LET wins == file[1].windows
            launched == { k \in 1..Len(wins) : Launchable(wins[k]) }
        IN  /\ ExecCount = Cardinality(launched)
            /\ \A k \in launched :
                 \E j \in 1..(Len(log) - 1) :
                     /\ log[j].text = switch_cmd(wins[k].workspace[1])
                     /\ log[j + 1].text = exec_cmd(wins[k].cmd[1])

\* Workspace 2 was skipped in phase 1 (its output is absent); of the two windows
\* on it the one with an empty command is skipped and the other is launched.
C4_Witness ==
    /\ pc = "done"
    /\ Len(file[1].workspaces) = 1
    /\ file[1].workspaces[1].name = Some("2")
    /\ Absent(file[1].workspaces[1].output)
    /\ Len(file[1].windows) = 2
    /\ file[1].windows[1].cmd = Some("")
    /\ file[1].windows[1].workspace = Some("2")
    /\ Launchable(file[1].windows[2])
    /\ Texts = << "workspace \"2\"", "exec -- foot" >>

\* C5: a failed command is the last command issued, the run is in its failure
\* state and the confirmation is not printed.
C5_AbortsOnFailure ==
    \A k \in 1..Len(log) :
        ~log[k].ok =>
            /\ k = Len(log)
            /\ pc = "failed"
            /\ \A j \in 1..Len(stdout) : stdout[j] # "Restored session"

\* The first command failed with another workspace and a window still to do.
C5_Witness ==
    /\ pc = "failed"
    /\ Len(log) = 1
    /\ ~log[1].ok
    /\ Len(workspace_targets) = 2
    /\ idx = 1
    /\ Len(file[1].windows) = 1
    /\ Launchable(file[1].windows[1])

\* C9: without a state file a step of restore_state ends in the fatal state,
\* issues no query and no command, and leaves no file.
C9_MissingFileIsFatal ==
    [][ (pc = "idle" /\ file = None) =>
            /\ pc' = "fatal"
            /\ file' = None
            /\ queries' = queries
            /\ log' = log ]_vars

\* No state file: the fatal state, with no query and no command.
C9_Witness ==
    /\ pc = "fatal"
    /\ file = None
    /\ queries = << >>
    /\ log = << >>

\* The flattening of a sequence of sequences.
RECURSIVE Flatten(_)
Flatten(ss) == IF Len(ss) = 0 THEN << >> ELSE Head(ss) \o Flatten(Tail(ss))

\* C10 as stated, phase 1: every record in snapshot order; skipped when its
\* output is non-null and not reported, else the switch and, with an output,
\* the move.
StatedPhase1 ==
    Flatten([ k \in 1..Len(file[1].workspaces) |->
        LET rec == file[1].workspaces[k]
        IN  IF rec.output # None /\ rec.output \notin Reported THEN << >>
            ELSE IF rec.output # None
            THEN << switch_cmd(fmt(rec.name)), move_cmd(fmt(rec.output)) >>
            ELSE << switch_cmd(fmt(rec.name)) >> ])

\* C10 as stated, phase 2: every record in snapshot order; skipped when its
\* command or workspace is null, else the switch and the exec.
StatedPhase2 ==
    Flatten([ k \in 1..Len(file[1].windows) |->
        LET win == file[1].windows[k]
        IN  IF win.cmd = None \/ win.workspace = None THEN << >>
            ELSE << switch_cmd(fmt(win.workspace)), exec_cmd(fmt(win.cmd)) >> ])

AmendedPhase1 ==
    LET recs == file[1].workspaces
    IN  Flatten([ k \in 1..Len(recs) |->
            IF ~Named(recs[k]) \/ \E j \in 1..(k - 1) : recs[j].name = recs[k].name
            THEN << >>
            ELSE LET output == LastOutput(recs, recs[k].name)
                 IN  IF Absent(output) THEN << >>
                     ELSE IF output # None /\ output # Some("")
                     THEN << switch_cmd(recs[k].name[1]), move_cmd(output[1]) >>
                     ELSE << switch_cmd(recs[k].name[1]) >> ])

\* C10, amended, phase 2: skipped when the command or the workspace is null or
\* empty.
AmendedPhase2 ==
    Flatten([ k \in 1..Len(file[1].windows) |->
        LET win == file[1].windows[k]
        IN  IF ~Launchable(win) THEN << >>
            ELSE << switch_cmd(win.workspace[1]), exec_cmd(win.cmd[1]) >> ])

----------------------------------------------------------------------------
(* Properties of save_state (Spec) *)

====
